---- MODULE Spec2Model ----
(***************************************************************************)
(* Model of the rt-steamscraper ingestion scripts.                         *)
(*                                                                         *)
(*   steam_review_scraper.py : render -> parse cards (identity lookups)    *)
(*                             -> paginated feed loop -> merge -> save     *)
(*   steam_game_scraper.py   : SteamScraper.get_app_list batch loop        *)
(*   database_manager.py     : DatabaseManager.connect / save_review       *)
(*   steam_sentiment.py      : chunk_text, normalize_text,                 *)
(*                             split_into_sentences,                       *)
(*                             align_to_sentence_boundary;                 *)
(*                             main: select reviews -> TextAnalyzer        *)
(*                             .analyze_text -> insert_sentiment_data      *)
(*                                                                         *)
(* Python values are modelled as strings: JSON numbers and strings keep    *)
(* their text ("120", "76561"), None is "None", a key that is absent from  *)
(* a dict is "Missing".  Each script is a separate process; prog says      *)
(* which script this behaviour runs ("chunk_text": one call of the         *)
(* segmenter on a text of its own).  Spec is the two scrapers,             *)
(* SentimentSpec is steam_sentiment.py.  The scripts share no state but    *)
(* the database; variables of the same name in two scripts (idx, db_conn,  *)
(* success_count, failed_count) are one variable of the model.             *)
(***************************************************************************)
EXTENDS Integers, Sequences, FiniteSets, TLC

VARIABLES
    prog,              \* which script runs
    pc,                \* position in the script
    review_cards,      \* soup.find_all('div', class_='apphub_Card')
    idx,               \* number of cards the parsing loop has consumed
    all_reviews,       \* scraped records
    custom_id_count,   \* alias profile links met so far
    lookups,           \* history: requests.get calls made by get_numeric_steam_id
    api_reviews,       \* feed records keyed by author steamid
    cursor,            \* pagination cursor
    page_num,          \* pages that were followed by another request
    requests,          \* history: page requests issued by the feed loop
    stop,              \* history: which break left the feed loop
    response,          \* the answer to the last page request
    api_before,        \* history: api_reviews after the last page that was stored whole
    data,              \* what line 228 read of the last stored page
    page_pos,          \* records of the page the for statement has consumed
    last_seen,         \* history: for each author id met, the record met last
    final_reviews,     \* merged records
    db_conn,           \* DatabaseManager.conn state
    reviews_table,     \* committed rows of steam_reviews, keyed by review_id
    save_idx,          \* merged records handed to save_review so far
    save_log,          \* history: what each save_review call did and returned
    success_count,
    failed_count,
    all_apps,          \* get_app_list: accumulated apps
    last_appid,        \* get_app_list: continuation token
    apps,              \* get_app_list: the batch of the last answer
    have_more,         \* get_app_list: have_more_results of the last answer
    app_requests,      \* history: batch requests issued by get_app_list
    app_stop,          \* history: which break left the get_app_list loop
    arg_text,          \* chunk_text: the text argument
    arg_chunk_size,    \* chunk_text: the chunk_size argument
    arg_overlap,       \* chunk_text: the overlap argument
    norm_text,         \* chunk_text: text after line 147
    sentences,         \* chunk_text: sentences
    words,             \* chunk_text: words (assigned on the sliding-window path only)
    chunks,            \* chunk_text: the list returned
    review_rows,       \* steam_sentiment main: reviews, the rows of line 352
    sentiment_analysis,   \* committed rows of sentiment_analysis
    analysis_chunks,      \* committed rows of analysis_chunks
    analysis_summaries,   \* committed rows of analysis_summaries
    verdicts,          \* history: the classifier's replies in the last pass of the review loop
    insert_returned,   \* history: what insert_sentiment_data did in the last pass
    arg_results,       \* _generate_summary: the results argument
    summary            \* _generate_summary: the dict returned

vars == <<prog, pc, review_cards, idx, all_reviews, custom_id_count, lookups,
          api_reviews, cursor, page_num, requests, stop, response, api_before, data, page_pos,
          last_seen, final_reviews, db_conn, reviews_table,
          save_idx, save_log, success_count, failed_count,
          all_apps, last_appid, apps, have_more, app_requests, app_stop,
          arg_text, arg_chunk_size, arg_overlap, norm_text, sentences, words, chunks,
          review_rows, sentiment_analysis, analysis_chunks, analysis_summaries,
          verdicts, insert_returned, arg_results, summary>>

reviewVars == <<review_cards, idx, all_reviews, custom_id_count, lookups,
                api_reviews, cursor, page_num, requests, stop, response, api_before, data, page_pos,
                last_seen, final_reviews, db_conn, reviews_table,
                save_idx, save_log, success_count, failed_count>>

appVars == <<all_apps, last_appid, apps, have_more, app_requests, app_stop>>

segVars == <<arg_text, arg_chunk_size, arg_overlap, norm_text, sentences, words, chunks>>

sentVars == <<review_rows, sentiment_analysis, analysis_chunks, analysis_summaries,
              verdicts, insert_returned, arg_results, summary>>

----------------------------------------------------------------------------
(* Bounds *)

MaxCards == 2        \* cards on the rendered page
MaxPageLen == 2      \* records on one feed page
MaxRequests == 2     \* page requests counted exactly; above it the counters saturate
MaxBatches == 1      \* batches of get_app_list that may be followed by another
MaxBatchLen == 2     \* apps in one batch
MaxTextLen == 6      \* characters of a text given to chunk_text
MaxChunkSize == 2    \* chunk_size given to chunk_text
MaxReviews == 2      \* rows the SELECT of steam_sentiment.py returns
MaxResults == 3      \* verdicts given to _generate_summary

----------------------------------------------------------------------------
(* Python values *)

None == "None"
Missing == "Missing"

\* truth value of a str / None
TruthyStr(v) == v \notin {None, Missing, ""}

\* truth value of an int / bool / None ("0" and "False" are the JSON 0 and false)
TruthyNum(v) == v \notin {None, Missing, "0", "False"}

\* dict.get(key, default): the default is used only when the key is absent
Get(v, default) == IF v = Missing THEN default ELSE v

\* dict.get(key): None when the key is absent
GetOrNone(v) == Get(v, None)

Sat(n) == IF n > MaxRequests THEN n ELSE n + 1

SeqsUpTo(S, n) == UNION {[1..k -> S] : k \in 0..n}

----------------------------------------------------------------------------
(* Inputs: the rendered page *)

app_id == "1901370"

Id1 == "76561"
Id2 == "76562"

\* One apphub_Card of the rendered page.  label: the recommendation label in
\* the card text; href: the author link as the two regular expressions of
\* the parsing loop see it; hours, text, date: the text of the three divs.
Card(label, kind, val, hours, text, date) ==
    [label |-> label, kind |-> kind, val |-> val,
     hours |-> hours, text |-> text, date |-> date]

Cards ==
    { Card("none", "id", "player_x", "1.5 hrs on record", "scraped text", "Posted: January 5, 2024"),
      Card("Recommended", "profiles", Id1, "1.5 hrs on record", "scraped text", "Posted: January 5, 2024"),
      Card("Not Recommended", "id", "player_x", Missing, "", ""),
      Card("Recommended", "nolink", Missing, Missing, "", "") }

\* What the identity service answers to one lookup.
Lookup(exc, status, steamID64) ==
    [exc |-> exc, status |-> status, steamID64 |-> steamID64]

LookupOutcomes ==
    { Lookup(TRUE, Missing, Missing),
      Lookup(FALSE, "404", Missing),
      Lookup(FALSE, "200", Missing),
      Lookup(FALSE, "200", Id1),
      Lookup(FALSE, "200", Id2) }

----------------------------------------------------------------------------
(* steam_review_scraper.py: helpers *)

get_numeric_steam_id(custom_id, net) ==
    IF net.exc THEN None
    ELSE IF net.status = "200" /\ net.steamID64 # Missing THEN net.steamID64
    ELSE None

parse_date(date_str) ==
    IF date_str = "Posted: January 5, 2024" THEN "2024-01-05 00:00:00" ELSE None

parse_hours(hours_str) ==
    IF hours_str = "1.5 hrs on record" THEN "90" ELSE "0"

\* datetime.fromtimestamp of a feed epoch value
fromtimestamp(ts) ==
    IF ts = "1700000000" THEN "2023-11-14 22:13:20" ELSE "1970-01-01 00:00:00"

\* ResolveAuthor that keeps the alias when the lookup gives no numeric id
ResolveAuthorKeepAlias(card, net) ==
    IF card.kind = "profiles" THEN [steam_id |-> card.val, custom |-> FALSE, calls |-> 0]
    ELSE IF card.kind = "id"
    THEN LET numeric_id == get_numeric_steam_id(card.val, net)
         IN  [steam_id |-> IF TruthyStr(numeric_id) THEN numeric_id ELSE card.val,
              custom |-> TRUE, calls |-> 1]
    ELSE [steam_id |-> None, custom |-> FALSE, calls |-> 0]

\* ResolveAuthor that sends the lookup a second time when it gave no numeric id
ResolveAuthorRetry(card, net) ==
    IF card.kind = "profiles" THEN [steam_id |-> card.val, custom |-> FALSE, calls |-> 0]
    ELSE IF card.kind = "id"
    THEN LET numeric_id == get_numeric_steam_id(card.val, net)
         IN  [steam_id |-> IF TruthyStr(numeric_id) THEN numeric_id ELSE None,
              custom |-> TRUE, calls |-> IF TruthyStr(numeric_id) THEN 1 ELSE 2]
    ELSE [steam_id |-> None, custom |-> FALSE, calls |-> 0]

\* Lines 134-151: the author link of a card to [steam_id, custom, calls]:
\* the steam id found (or None), whether the link was an alias link, and the
\* number of lookups sent to the identity service.
ResolveAuthor(card, net) ==
    IF card.kind = "profiles" THEN [steam_id |-> card.val, custom |-> FALSE, calls |-> 0]
    ELSE IF card.kind = "id"
    THEN LET numeric_id == get_numeric_steam_id(card.val, net)
         IN  [steam_id |-> IF TruthyStr(numeric_id) THEN numeric_id ELSE None,
              custom |-> TRUE, calls |-> 1]
    ELSE [steam_id |-> None, custom |-> FALSE, calls |-> 0]

\* Lines 157-177: the scraped record of a card whose author is steam_id.
ScrapedRecord(card, steam_id) ==
    [steam_id |-> steam_id,
     voted_up |-> IF card.label = "Not Recommended" THEN "False" ELSE "True",
     playtime_forever |-> IF card.hours = Missing THEN "0" ELSE parse_hours(card.hours),
     review_text |-> card.text,
     timestamp_created |-> parse_date(card.date)]

----------------------------------------------------------------------------
(* steam_review_scraper.py: start-up, render, card parsing loop *)

Startup ==
    /\ prog = "review_scraper"
    /\ pc = "start"
    /\ \E DB_URL \in {None, "postgresql://db"} :
          pc' = IF TruthyStr(DB_URL) THEN "render" ELSE "exited"
    /\ UNCHANGED <<prog, reviewVars, appVars, segVars, sentVars>>

Render ==
    /\ prog = "review_scraper"
    /\ pc = "render"
    /\ \/ /\ pc' = "crashed"
          /\ UNCHANGED review_cards
       \/ \E cards \in SeqsUpTo(Cards, MaxCards) :
             /\ review_cards' = cards
             /\ pc' = IF cards = <<>> THEN "fetch" ELSE "parse"
    /\ UNCHANGED <<prog, idx, all_reviews, custom_id_count, lookups,
                   api_reviews, cursor, page_num, requests, stop, response, api_before, data, page_pos,
                   last_seen, final_reviews, db_conn, reviews_table,
                   save_idx, save_log, success_count, failed_count, appVars, segVars, sentVars>>

ParseCard ==
    /\ prog = "review_scraper"
    /\ pc = "parse"
    /\ idx < Len(review_cards)
    /\ LET card == review_cards[idx + 1] IN
       \E net \in LookupOutcomes :
          LET r == ResolveAuthor(card, net) IN
          IF card.label = "none"
          THEN UNCHANGED <<all_reviews, custom_id_count, lookups>>
          ELSE /\ custom_id_count' = IF r.custom THEN custom_id_count + 1 ELSE custom_id_count
               /\ lookups' = lookups + r.calls
               /\ all_reviews' = IF TruthyStr(r.steam_id)
                                 THEN Append(all_reviews, ScrapedRecord(card, r.steam_id))
                                 ELSE all_reviews
    /\ idx' = idx + 1
    /\ pc' = IF idx' = Len(review_cards) THEN "fetch" ELSE "parse"
    /\ UNCHANGED <<prog, review_cards,
                   api_reviews, cursor, page_num, requests, stop, response, api_before, data, page_pos,
                   last_seen, final_reviews, db_conn, reviews_table,
                   save_idx, save_log, success_count, failed_count, appVars, segVars, sentVars>>

----------------------------------------------------------------------------
(* Inputs: the review feed *)

\* One element of a page's "reviews" list.  wf = FALSE is an element the
\* for statement cannot read (not an object, or "author": null), so that
\* review.get('author', {}).get('steamid') raises.
FeedRec(wf, steamid, recid, playtime, review, created, voted_up, up, funny, score, comments) ==
    [wf |-> wf, steamid |-> steamid, recommendationid |-> recid,
     playtime_forever |-> playtime, review |-> review,
     timestamp_created |-> created, voted_up |-> voted_up,
     votes_up |-> up, votes_funny |-> funny,
     weighted_vote_score |-> score, comment_count |-> comments]

\* {}: what api_reviews.get(steam_id, {}) is for an author the feed never listed
NoFeedRec ==
    FeedRec(TRUE, Missing, Missing, Missing, Missing, Missing, Missing,
            Missing, Missing, Missing, Missing)

FeedRecs ==
    { FeedRec(TRUE, Id1, "r101", "120", "feed text", "1700000000", "True", "5", "1", "0.91", "2"),
      FeedRec(TRUE, Id1, "r101", "125", "feed text, edited", "1700000000", "False", "7", "1", "0.93", "3"),
      FeedRec(TRUE, Id1, Missing, Missing, Missing, Missing, Missing, Missing, Missing, Missing, Missing),
      FeedRec(TRUE, Id1, None, None, None, None, None, None, None, None, None),
      FeedRec(TRUE, Id2, "r201", "30", "other feed text", "1700000000", "True", "0", "0", "0.5", "0"),
      FeedRec(TRUE, Missing, "r301", "10", "anonymous", "1700000000", "True", "0", "0", "0.5", "0"),
      FeedRec(FALSE, Missing, Missing, Missing, Missing, Missing, Missing, Missing, Missing, Missing, Missing) }

\* One answer of the feed to a page request.  Of the body only what line
\* 205-217 read is drawn here: the records of a non-empty page are drawn one
\* at a time by the for statement, and "cursor" (with the have_more_results
\* key a feed may add, which no line reads) when line 228 reads it.
Response(exc, status, json_ok, success, empty) ==
    [exc |-> exc, status |-> status, json_ok |-> json_ok, success |-> success,
     empty |-> empty]

Responses ==
    { Response(TRUE, Missing, FALSE, Missing, TRUE),
      Response(FALSE, "500", FALSE, Missing, TRUE),
      Response(FALSE, "200", FALSE, Missing, TRUE),
      Response(FALSE, "200", TRUE, "0", FALSE),
      Response(FALSE, "200", TRUE, "1", TRUE),
      Response(FALSE, "200", TRUE, "1", FALSE) }

FeedCursors == {Missing, "", "*", "AoJ4"}

\* "cursor" and have_more_results of a stored page
PageEnds ==
    [cursor : FeedCursors, have_more_results : {Missing}]
    \cup [cursor : {"AoJ4"}, have_more_results : {"False"}]

\* before line 228 has read the page's end
NoData == [cursor |-> "Unread", have_more_results |-> "Unread"]

NoResponse == Response(FALSE, Missing, FALSE, Missing, TRUE)

----------------------------------------------------------------------------
(* steam_review_scraper.py: the pagination loop *)

\* FetchOutcome without the test of lines 217-219
FetchOutcomeNoEmptyTest(resp) ==
    IF resp.exc THEN "exception"
    ELSE IF resp.status # "200" THEN "status"
    ELSE IF ~resp.json_ok THEN "exception"
    ELSE IF ~TruthyNum(resp.success) THEN "unsuccessful"
    ELSE "page"

\* Lines 205-219: where a response sends the loop: to one of its first four
\* breaks, or on to the for statement.
FetchOutcome(resp) ==
    IF resp.exc THEN "exception"
    ELSE IF resp.status # "200" THEN "status"
    ELSE IF ~resp.json_ok THEN "exception"
    ELSE IF ~TruthyNum(resp.success) THEN "unsuccessful"
    ELSE IF resp.empty THEN "empty"
    ELSE "page"

\* Store that keeps the record an author already has
StoreFirst(reviews, author_steamid, review) ==
    [k \in DOMAIN reviews \cup {author_steamid} |->
        IF k \in DOMAIN reviews THEN reviews[k] ELSE review]

\* Line 224: api_reviews[author_steamid] = review
Store(reviews, author_steamid, review) ==
    [k \in DOMAIN reviews \cup {author_steamid} |->
        IF k = author_steamid THEN review ELSE reviews[k]]

\* LastPage without the "cursor == '*'" half of line 229
LastPageEmptyOnly(next_cursor) == ~TruthyStr(next_cursor)

\* LastPage without the "not cursor" half of line 229
LastPageStarOnly(next_cursor) == next_cursor = "*"

\* Line 229: the test that ends the loop after a stored page
LastPage(next_cursor) == ~TruthyStr(next_cursor) \/ next_cursor = "*"

RequestPage ==
    /\ prog = "review_scraper"
    /\ pc = "fetch"
    /\ \E resp \in Responses :
          /\ LET o == FetchOutcome(resp) IN
             IF o = "page"
             THEN /\ pc' = "page"
                  /\ UNCHANGED stop
             ELSE /\ pc' = "merge"
                  /\ stop' = o
          /\ response' = resp
    /\ requests' = Sat(requests)
    /\ data' = NoData
    /\ page_pos' = 0
    /\ UNCHANGED <<prog, review_cards, idx, all_reviews, custom_id_count, lookups,
                   api_reviews, api_before, cursor, page_num, last_seen,
                   final_reviews, db_conn, reviews_table,
                   save_idx, save_log, success_count, failed_count, appVars, segVars, sentVars>>

\* Lines 221-224: one pass of the for statement
StoreReview ==
    /\ prog = "review_scraper"
    /\ pc = "page"
    /\ page_pos < MaxPageLen
    /\ \E review \in FeedRecs :
          IF ~review.wf
          THEN /\ pc' = "merge"
               /\ stop' = "exception"
               /\ page_pos' = 0
               /\ UNCHANGED <<api_reviews, last_seen>>
          ELSE LET author_steamid == GetOrNone(review.steamid) IN
               /\ IF TruthyStr(author_steamid)
                  THEN /\ api_reviews' = Store(api_reviews, author_steamid, review)
                       /\ last_seen' = [k \in DOMAIN last_seen \cup {author_steamid} |->
                                           IF k = author_steamid THEN review ELSE last_seen[k]]
                  ELSE UNCHANGED <<api_reviews, last_seen>>
               /\ page_pos' = page_pos + 1
               /\ UNCHANGED <<pc, stop>>
    /\ UNCHANGED <<prog, review_cards, idx, all_reviews, custom_id_count, lookups,
                   cursor, page_num, requests, response, api_before, data,
                   final_reviews, db_conn, reviews_table,
                   save_idx, save_log, success_count, failed_count, appVars, segVars, sentVars>>

\* Lines 226-234: after the for statement
EndPage ==
    /\ prog = "review_scraper"
    /\ pc = "page"
    /\ page_pos >= 1
    /\ \E end \in PageEnds :
          /\ cursor' = GetOrNone(end.cursor)
          /\ IF LastPage(cursor')
             THEN /\ pc' = "merge"
                  /\ stop' = "cursor"
                  /\ UNCHANGED page_num
             ELSE /\ pc' = "fetch"
                  /\ page_num' = Sat(page_num)
                  /\ UNCHANGED stop
          /\ data' = end
    /\ api_before' = api_reviews
    /\ page_pos' = 0
    /\ UNCHANGED <<prog, review_cards, idx, all_reviews, custom_id_count, lookups,
                   api_reviews, requests, response, last_seen,
                   final_reviews, db_conn, reviews_table,
                   save_idx, save_log, success_count, failed_count, appVars, segVars, sentVars>>

----------------------------------------------------------------------------
(* steam_review_scraper.py: merge *)

\* What n successive calls of datetime.now() may return, counted in clock
\* ticks from the first call: a call reads the tick of the call before it or
\* a later one (only the order of the readings matters, so the next).
Stamps(n) ==
    {st \in [1..n -> 1..n] :
        /\ n > 0 => st[1] = 1
        /\ \A i \in 1..(n - 1) : st[i + 1] \in {st[i], st[i] + 1}}

\* MergeOne whose timestamp_created falls back on the clock
MergeOneClockFallback(review, api, now) ==
    LET steam_id == review.steam_id
        api_data == IF steam_id \in DOMAIN api THEN api[steam_id] ELSE NoFeedRec
    IN  [steam_product_id |-> app_id,
         review_id |-> Get(api_data.recommendationid, steam_id \o "_" \o app_id),
         author_steamid |-> steam_id,
         author_playtime_forever |-> Get(api_data.playtime_forever, review.playtime_forever),
         review |-> Get(api_data.review, review.review_text),
         timestamp_created |-> IF TruthyNum(GetOrNone(api_data.timestamp_created))
                               THEN fromtimestamp(api_data.timestamp_created)
                               ELSE ToString(now),
         voted_up |-> Get(api_data.voted_up, review.voted_up),
         votes_up |-> GetOrNone(api_data.votes_up),
         votes_funny |-> GetOrNone(api_data.votes_funny),
         weighted_vote_score |-> GetOrNone(api_data.weighted_vote_score),
         comment_count |-> GetOrNone(api_data.comment_count),
         created_at |-> now]

\* Lines 246-273: the merged record of one scraped record; now is what
\* datetime.now() of line 272 returns
MergeOne(review, api, now) ==
    LET steam_id == review.steam_id
        api_data == IF steam_id \in DOMAIN api THEN api[steam_id] ELSE NoFeedRec
    IN  [steam_product_id |-> app_id,
         review_id |-> Get(api_data.recommendationid, steam_id \o "_" \o app_id),
         author_steamid |-> steam_id,
         author_playtime_forever |-> Get(api_data.playtime_forever, review.playtime_forever),
         review |-> Get(api_data.review, review.review_text),
         timestamp_created |-> IF TruthyNum(GetOrNone(api_data.timestamp_created))
                               THEN fromtimestamp(api_data.timestamp_created)
                               ELSE review.timestamp_created,
         voted_up |-> Get(api_data.voted_up, review.voted_up),
         votes_up |-> GetOrNone(api_data.votes_up),
         votes_funny |-> GetOrNone(api_data.votes_funny),
         weighted_vote_score |-> GetOrNone(api_data.weighted_vote_score),
         comment_count |-> GetOrNone(api_data.comment_count),
         created_at |-> now]

\* Lines 243-275: one merged record per scraped record, in order
MergeAll(scraped, api, stamps) ==
    [i \in 1..Len(scraped) |-> MergeOne(scraped[i], api, stamps[i])]

\* The merge loop.  Nothing after line 240 reads the variables of the
\* pagination loop (response, data, cursor, page_num): they are dead from
\* here on, and the model stops tracking them and the loop's history.
Merge ==
    /\ prog = "review_scraper"
    /\ pc = "merge"
    /\ \E stamps \in Stamps(Len(all_reviews)) :
          final_reviews' = MergeAll(all_reviews, api_reviews, stamps)
    /\ pc' = "connect"
    /\ response' = NoResponse
    /\ data' = NoData
    /\ cursor' = "*"
    /\ page_num' = 0
    /\ requests' = 0
    /\ stop' = "none"
    /\ api_before' = <<>>
    /\ UNCHANGED <<prog, review_cards, idx, all_reviews, custom_id_count, lookups,
                   api_reviews, page_pos,
                   last_seen, db_conn, reviews_table,
                   save_idx, save_log, success_count, failed_count, appVars, segVars, sentVars>>

----------------------------------------------------------------------------
(* database_manager.py and the save loop *)

\* Upsert that overwrites the whole row on conflict
UpsertReplaceRow(table, r) ==
    [k \in DOMAIN table \cup {r.review_id} |->
        IF k = r.review_id THEN r ELSE table[k]]

\* INSERT ... ON CONFLICT (review_id) DO UPDATE SET votes_up, votes_funny, review
Upsert(table, r) ==
    IF r.review_id \in DOMAIN table
    THEN [table EXCEPT ![r.review_id] =
            [@ EXCEPT !.votes_up = r.votes_up,
                      !.votes_funny = r.votes_funny,
                      !.review = r.review]]
    ELSE [k \in DOMAIN table \cup {r.review_id} |->
            IF k = r.review_id THEN r ELSE table[k]]

\* What can go wrong in one save_review call.  "statement": cursor.execute
\* or conn.commit raises and the connection stays usable (a constraint
\* violation).  "connection": the connection is lost, cursor.execute raises
\* and so does the conn.rollback() of the except clause.
DbFaults == {"none", "statement", "connection"}

\* save_review that returns True whether or not the write committed
save_reviewAlwaysTrue(table, review_data, db_error) ==
    IF db_error = "none"
    THEN [table |-> Upsert(table, review_data), ok |-> TRUE, raised |-> FALSE]
    ELSE [table |-> table, ok |-> TRUE, raised |-> FALSE]

\* DatabaseManager.save_review: the committed table after the call, the value
\* returned, and whether the call raised instead of returning.
save_review(table, review_data, db_error) ==
    IF db_error = "none"
    THEN [table |-> Upsert(table, review_data), ok |-> TRUE, raised |-> FALSE]
    ELSE IF db_error = "statement"
    THEN [table |-> table, ok |-> FALSE, raised |-> FALSE]
    ELSE [table |-> table, ok |-> FALSE, raised |-> TRUE]

\* The rows an earlier run for the same product left in steam_reviews: none,
\* or the row of author Id1 under the feed's id, saved at clock reading 0.
EarlierRow ==
    MergeOne(ScrapedRecord(Card("Recommended", "profiles", Id1, "1.5 hrs on record",
                                "scraped text", "Posted: January 5, 2024"), Id1),
             Store(<<>>, Id1, FeedRec(TRUE, Id1, "r101", "120", "feed text", "1700000000",
                                      "True", "5", "1", "0.91", "2")),
             0)

ExistingTables == {<<>>, Upsert(<<>>, EarlierRow)}

\* Lines 279-280: an exception of psycopg2.connect is not caught.  From here
\* on reviews_table is the committed content of steam_reviews.
Connect ==
    /\ prog = "review_scraper"
    /\ pc = "connect"
    /\ \/ /\ db_conn' = "open"
          /\ pc' = "save"
          /\ reviews_table' \in ExistingTables
       \/ /\ pc' = "crashed"
          /\ UNCHANGED <<db_conn, reviews_table>>
    /\ UNCHANGED <<prog, review_cards, idx, all_reviews, custom_id_count, lookups,
                   api_reviews, cursor, page_num, requests, stop, response, api_before, data, page_pos,
                   last_seen, final_reviews,
                   save_idx, save_log, success_count, failed_count, appVars, segVars, sentVars>>

\* what a save_review call did: the write committed as an insert or as an
\* update, or it did not commit
Outcome(table, review_data, db_error) ==
    IF db_error # "none" THEN "failed"
    ELSE IF review_data.review_id \in DOMAIN table THEN "updated"
    ELSE "inserted"

\* what the caller of save_review gets
Returned(r) == IF r.raised THEN "raised" ELSE IF r.ok THEN "True" ELSE "False"

\* Lines 286-290: one pass of the save loop.  An exception that leaves
\* save_review is caught nowhere: the script ends with a traceback.
SaveReview ==
    /\ prog = "review_scraper"
    /\ pc = "save"
    /\ save_idx < Len(final_reviews)
    /\ \E db_error \in DbFaults :
          LET review == final_reviews[save_idx + 1]
              r == save_review(reviews_table, review, db_error)
          IN  /\ reviews_table' = r.table
              /\ save_log' = Append(save_log, [kind |-> Outcome(reviews_table, review, db_error),
                                               returned |-> Returned(r)])
              /\ IF r.raised
                 THEN /\ pc' = "crashed"
                      /\ UNCHANGED <<save_idx, success_count, failed_count>>
                 ELSE /\ save_idx' = save_idx + 1
                      /\ IF r.ok
                         THEN success_count' = success_count + 1 /\ UNCHANGED failed_count
                         ELSE failed_count' = failed_count + 1 /\ UNCHANGED success_count
                      /\ UNCHANGED pc
    /\ UNCHANGED <<prog, review_cards, idx, all_reviews, custom_id_count, lookups,
                   api_reviews, cursor, page_num, requests, stop, response, api_before, data, page_pos,
                   last_seen, final_reviews, db_conn, appVars, segVars, sentVars>>

\* Lines 295-301
Finish ==
    /\ prog = "review_scraper"
    /\ pc = "save"
    /\ save_idx = Len(final_reviews)
    /\ db_conn' = "closed"
    /\ pc' = "done"
    /\ UNCHANGED <<prog, review_cards, idx, all_reviews, custom_id_count, lookups,
                   api_reviews, cursor, page_num, requests, stop, response, api_before, data, page_pos,
                   last_seen, final_reviews, reviews_table,
                   save_idx, save_log, success_count, failed_count, appVars, segVars, sentVars>>

----------------------------------------------------------------------------
(* steam_game_scraper.py: SteamScraper.get_app_list *)

AppIds == {"10", "20", Missing}

\* One answer of GetAppList.  exc: session.get, raise_for_status or json raised.
AppResponses ==
    [exc : {TRUE}, apps : {<<>>}, have_more_results : {Missing}]
    \cup [exc : {FALSE},
          apps : SeqsUpTo([appid : AppIds], MaxBatchLen),
          have_more_results : {Missing, "False", "True"}]

\* AppOutcome without the test of lines 105-107
AppOutcomeIgnoresFlag(resp) ==
    IF resp.exc THEN "exception"
    ELSE IF resp.apps = <<>> THEN "empty"
    ELSE IF resp.apps[Len(resp.apps)].appid = Missing THEN "exception"
    ELSE "more"

\* Lines 87-111: what one answer does to the loop
AppOutcome(resp) ==
    IF resp.exc THEN "exception"
    ELSE IF resp.apps = <<>> THEN "empty"
    ELSE IF resp.apps[Len(resp.apps)].appid = Missing THEN "exception"
    ELSE IF ~TruthyNum(Get(resp.have_more_results, "False")) THEN "no_more"
    ELSE "more"

GetAppBatch ==
    /\ prog = "game_scraper"
    /\ pc = "app_fetch"
    /\ \E resp \in AppResponses :
          LET o == AppOutcome(resp) IN
          /\ app_requests < MaxBatches \/ o # "more"
          /\ apps' = IF resp.exc THEN apps ELSE resp.apps
          /\ have_more' = IF resp.exc THEN have_more ELSE Get(resp.have_more_results, "False")
          /\ all_apps' = IF resp.exc THEN all_apps ELSE all_apps \o resp.apps
          /\ last_appid' = IF o \in {"no_more", "more"}
                           THEN resp.apps[Len(resp.apps)].appid ELSE last_appid
          /\ IF o = "more"
             THEN UNCHANGED <<pc, app_stop>>
             ELSE pc' = "apps_done" /\ app_stop' = o
    /\ app_requests' = app_requests + 1
    /\ UNCHANGED <<prog, reviewVars, segVars, sentVars>>

----------------------------------------------------------------------------
(* steam_sentiment.py: chunk_text and its helpers.  A str is a sequence of
   one-character strings. *)

\* the characters of the texts: a lower-case letter, an upper-case letter,
\* a sentence-terminal punctuation character and a whitespace character
Chars == {"a", "A", ".", " "}

Texts == SeqsUpTo(Chars, MaxTextLen)

\* (chunk_size, overlap) with chunk_size > overlap >= 0, as in the defaults
\* 100 and 20 of line 145
ChunkParams ==
    {p \in [chunk_size : 1..MaxChunkSize, overlap : 0..(MaxChunkSize - 1)] :
        p.chunk_size > p.overlap}

isspace(c) == c = " "

isupper(c) == c = "A"

sentence_endings == {".", "!", "?"}

\* the characters of s at the positions in I, in order
RECURSIVE AtPositions(_, _, _)
AtPositions(s, I, i) ==
    IF i > Len(s) THEN <<>>
    ELSE (IF i \in I THEN <<s[i]>> ELSE <<>>) \o AtPositions(s, I, i + 1)

\* the position after the whitespace run that holds position i
RECURSIVE RunEnd(_, _)
RunEnd(s, i) == IF i <= Len(s) /\ isspace(s[i]) THEN RunEnd(s, i + 1) ELSE i

\* the position before the whitespace run that holds position i
RECURSIVE RunStart(_, _)
RunStart(s, i) == IF i >= 1 /\ isspace(s[i]) THEN RunStart(s, i - 1) ELSE i

\* str.strip()
strip(s) ==
    LET inner == {i \in 1..Len(s) : RunStart(s, i) >= 1 /\ RunEnd(s, i) <= Len(s)}
    IN  AtPositions(s, inner, 1)

\* The pieces of s between the runs of positions in seps (re.split,
\* str.split).  i: the position looked at; cur: the piece read so far.
RECURSIVE Pieces(_, _, _, _)
Pieces(s, seps, i, cur) ==
    IF i > Len(s) THEN <<cur>>
    ELSE IF i \notin seps THEN Pieces(s, seps, i + 1, Append(cur, s[i]))
    ELSE IF i > 1 /\ (i - 1) \in seps THEN Pieces(s, seps, i + 1, cur)
    ELSE <<cur>> \o Pieces(s, seps, i + 1, <<>>)

NonEmpty(pieces) == SelectSeq(pieces, LAMBDA x : x # <<>>)

\* str.split(): the words of s
split(s) ==
    NonEmpty(Pieces(s, {i \in 1..Len(s) : isspace(s[i])}, 1, <<>>))

\* ' '.join(words)
RECURSIVE join(_)
join(word_list) ==
    IF word_list = <<>> THEN <<>>
    ELSE IF Len(word_list) = 1 THEN word_list[1]
    ELSE word_list[1] \o <<" ">> \o join(Tail(word_list))

\* Lines 167-171
normalize_text(text) ==
    LET t0 == strip(text)
        t1 == AtPositions(t0, {i \in 1..Len(t0) : ~(isspace(t0[i]) /\ i > 1 /\ isspace(t0[i - 1]))}, 1)
        before_ending == {i \in 1..Len(t1) :
                             /\ isspace(t1[i])
                             /\ RunEnd(t1, i) <= Len(t1)
                             /\ t1[RunEnd(t1, i)] \in sentence_endings}
    IN  AtPositions(t1, (1..Len(t1)) \ before_ending, 1)

\* Lines 174-178: split at the whitespace that follows a sentence ending and
\* precedes an upper-case letter
split_into_sentences(text) ==
    LET seps == {i \in 1..Len(text) :
                    /\ isspace(text[i])
                    /\ RunStart(text, i) >= 1
                    /\ text[RunStart(text, i)] \in sentence_endings
                    /\ RunEnd(text, i) <= Len(text)
                    /\ isupper(text[RunEnd(text, i)])}
        parts == Pieces(text, seps, 1, <<>>)
    IN  NonEmpty([k \in DOMAIN parts |-> strip(parts[k])])

\* align_to_sentence_boundary that cuts after any sentence ending
alignAnyEnding(chunk) ==
    LET ends == {i \in 1..Len(chunk) : chunk[i] \in sentence_endings}
    IN  IF ends = {} THEN chunk
        ELSE SubSeq(chunk, 1, CHOOSE i \in ends : \A j \in ends : j <= i)

\* Lines 181-190: cut the chunk after its last sentence ending that ends the
\* chunk or is followed by whitespace
align_to_sentence_boundary(chunk) ==
    LET ends == {i \in 1..Len(chunk) :
                    /\ chunk[i] \in sentence_endings
                    /\ (i = Len(chunk) \/ isspace(chunk[i + 1]))}
    IN  IF ends = {} THEN chunk
        ELSE SubSeq(chunk, 1, CHOOSE i \in ends : \A j \in ends : j <= i)

\* Window of chunk_size + 1 words
WindowTooWide(word_list, i, chunk_size) ==
    join(SubSeq(word_list, i + 1, IF i + chunk_size + 1 < Len(word_list) THEN i + chunk_size + 1 ELSE Len(word_list)))

\* Line 157-158: the window of chunk_size words that starts after i words
Window(word_list, i, chunk_size) ==
    join(SubSeq(word_list, i + 1, IF i + chunk_size < Len(word_list) THEN i + chunk_size ELSE Len(word_list)))

\* Lines 156-162: the chunks of the windows that start after i, i + step, ... words
RECURSIVE SlidingChunks(_, _, _, _)
SlidingChunks(word_list, i, chunk_size, step) ==
    IF i >= Len(word_list) THEN <<>>
    ELSE LET chunk == align_to_sentence_boundary(Window(word_list, i, chunk_size))
         IN  (IF strip(chunk) # <<>> THEN <<strip(chunk)>> ELSE <<>>)
                \o SlidingChunks(word_list, i + step, chunk_size, step)

\* Line 150
CheapPath(sentence_list, chunk_size) ==
    \A k \in DOMAIN sentence_list : Len(split(sentence_list[k])) <= chunk_size

\* chunk_text that takes the sliding-window path for every text
chunk_textAlwaysSliding(text, chunk_size, overlap) ==
    LET normalized == normalize_text(text)
        sentence_list == split_into_sentences(normalized)
        word_list == split(normalized)
    IN  [text |-> normalized, sentences |-> sentence_list, words |-> word_list,
         chunks |-> SlidingChunks(word_list, 0, chunk_size, chunk_size - overlap)]

\* Lines 145-164: the list returned (chunks) and the locals text, sentences
\* and words at the return; words is assigned after line 151 only
chunk_text(text, chunk_size, overlap) ==
    LET normalized == normalize_text(text)
        sentence_list == split_into_sentences(normalized)
        word_list == split(normalized)
    IN  IF CheapPath(sentence_list, chunk_size)
        THEN [text |-> normalized, sentences |-> sentence_list, words |-> <<>>,
              chunks |-> NonEmpty([k \in DOMAIN sentence_list |-> strip(sentence_list[k])])]
        ELSE [text |-> normalized, sentences |-> sentence_list, words |-> word_list,
              chunks |-> SlidingChunks(word_list, 0, chunk_size, chunk_size - overlap)]

\* One call chunk_text(text, chunk_size, overlap)
ChunkText ==
    /\ prog = "chunk_text"
    /\ pc = "chunk"
    /\ \E text \in Texts, p \in ChunkParams :
          \E r \in {chunk_text(text, p.chunk_size, p.overlap)} :
          /\ arg_text' = text
          /\ arg_chunk_size' = p.chunk_size
          /\ arg_overlap' = p.overlap
          /\ norm_text' = r.text
          /\ sentences' = r.sentences
          /\ words' = r.words
          /\ chunks' = r.chunks
    /\ pc' = "chunked"
    /\ UNCHANGED <<prog, reviewVars, appVars, sentVars>>

----------------------------------------------------------------------------
(* steam_sentiment.py: TextAnalyzer.  A confidence is a number of tenths
   (9 is 0.9, 15 is 1.5). *)

DefaultChunkSize == 100   \* chunk_size of line 145
DefaultOverlap == 20      \* overlap of line 145

\* class SentimentType, by value
SentimentType == {"positive", "negative", "neutral"}

\* One answer of client.chat.completions.create to one chunk.  kind "error":
\* the call raised; "not_json": the content is not valid JSON; "json": the
\* content is a JSON object with the three keys except the one named by
\* absent ("none": all three present).
Reply(kind, absent, sentiment, confidence, category) ==
    [kind |-> kind, absent |-> absent, sentiment |-> sentiment, confidence |-> confidence, category |-> category]

Replies ==
    {Reply("error", "none", "positive", 9, "Graphics fidelity"),
     Reply("not_json", "none", "positive", 9, "Graphics fidelity"),
     Reply("json", "sentiment", "positive", 9, "Graphics fidelity"),
     Reply("json", "confidence", "positive", 9, "Graphics fidelity"),
     Reply("json", "category", "positive", 9, "Graphics fidelity"),
     Reply("json", "none", "mixed", 9, "Graphics fidelity"),
     Reply("json", "none", "positive", 9, "Graphics fidelity"),
     Reply("json", "none", "negative", 15, "out-of-box"),
     Reply("json", "none", "neutral", 5, "")}

\* Lines 77-119: whether the call, json.loads, a subscript of result_json or
\* SentimentType(...) raises; every exception is raised again by line 119
ChunkRaises(reply) ==
    \/ reply.kind # "json"
    \/ reply.absent # "none"
    \/ reply.sentiment \notin SentimentType

\* Lines 108-116 and to_dict: the verdict of one chunk
AnalysisResult(chunk, reply) ==
    [chunk |-> chunk,
     sentiment |-> reply.sentiment,
     confidence |-> reply.confidence,
     category |-> reply.category,
     is_out_of_box |-> reply.category = "out-of-box"]

\* Lines 128-134: the loop of _generate_summary from result i on
RECURSIVE SummaryLoop(_, _, _, _, _)
SummaryLoop(results, i, sentiment_counts, out_of_box_count, categories) ==
    IF i > Len(results)
    THEN [sentiment_distribution |-> sentiment_counts,
          out_of_box_count |-> out_of_box_count,
          category_distribution |-> categories]
    ELSE LET result == results[i]
             category == result.category
         IN  SummaryLoop(results, i + 1,
                         [sentiment_counts EXCEPT ![result.sentiment] = @ + 1],
                         IF result.is_out_of_box THEN out_of_box_count + 1 ELSE out_of_box_count,
                         [c \in DOMAIN categories \cup {category} |->
                             IF c = category
                             THEN (IF c \in DOMAIN categories THEN categories[c] ELSE 0) + 1
                             ELSE categories[c]])

\* sum(r.confidence for r in results)
RECURSIVE SumConfidence(_)
SumConfidence(results) ==
    IF results = <<>> THEN 0 ELSE results[1].confidence + SumConfidence(Tail(results))

\* The quotient sum / total of line 141, kept as the two numbers; 0.0 is 0 / 1
Quotient(sum, total) == [sum |-> sum, by |-> total]

\* _generate_summary that divides by the number of results when there is none
generate_summaryNoEmptyCase(results) ==
    LET total == Len(results)
        counted == SummaryLoop(results, 1, [s \in SentimentType |-> 0], 0, <<>>)
    IN  [total_chunks |-> total,
         sentiment_distribution |-> counted.sentiment_distribution,
         out_of_box_count |-> counted.out_of_box_count,
         category_distribution |-> counted.category_distribution,
         average_confidence |-> Quotient(SumConfidence(results), total)]

\* Lines 121-142: TextAnalyzer._generate_summary
generate_summary(results) ==
    LET total == Len(results)
        counted == SummaryLoop(results, 1, [s \in SentimentType |-> 0], 0, <<>>)
    IN  [total_chunks |-> total,
         sentiment_distribution |-> counted.sentiment_distribution,
         out_of_box_count |-> counted.out_of_box_count,
         category_distribution |-> counted.category_distribution,
         average_confidence |-> IF total > 0 THEN Quotient(SumConfidence(results), total)
                                ELSE Quotient(0, 1)]

\* analyze_text that leaves out the chunks whose classification raised
analyze_textSkipsFailed(text, replies) ==
    LET chunk_list == chunk_text(text, DefaultChunkSize, DefaultOverlap).chunks
        answered == {k \in DOMAIN replies : ~ChunkRaises(replies[k])}
        kept == AtPositions(replies, answered, 1)
        results == [k \in DOMAIN kept |-> AnalysisResult(chunk_list[k], kept[k])]
    IN  [raised |-> FALSE,
         data |-> [original_text |-> text,
                   total_chunks |-> Len(chunk_list),
                   analysis_results |-> results,
                   summary |-> generate_summary(results)]]

\* Lines 63-73: TextAnalyzer.analyze_text.  replies: the classifier's answers
\* to the chunks, in order; the comprehension of line 66 stops at the first
\* chunk whose _analyze_chunk raises, and analyze_text raises with it.
analyze_text(text, replies) ==
    LET chunk_list == chunk_text(text, DefaultChunkSize, DefaultOverlap).chunks
        results == [k \in DOMAIN replies |-> AnalysisResult(chunk_list[k], replies[k])]
    IN  IF \E k \in DOMAIN replies : ChunkRaises(replies[k])
        THEN [raised |-> TRUE]
        ELSE [raised |-> FALSE,
              data |-> [original_text |-> text,
                        total_chunks |-> Len(chunk_list),
                        analysis_results |-> results,
                        summary |-> generate_summary(results)]]

\* The answers the classifier can give while one text of n chunks is
\* analysed: one per chunk, up to the first answer that makes _analyze_chunk
\* raise
Conversations(n) ==
    {c \in SeqsUpTo(Replies, n) :
        /\ \A k \in 1..(Len(c) - 1) : ~ChunkRaises(c[k])
        /\ Len(c) = n \/ (Len(c) > 0 /\ ChunkRaises(c[Len(c)]))}

\* The verdicts _generate_summary is called on: what _analyze_chunk builds
\* from the replies that do not raise
SummaryInputs ==
    {AnalysisResult(<<"a">>, Reply("json", "none", s, c, g)) :
        s \in SentimentType, c \in {5, 9}, g \in {"Graphics fidelity", "out-of-box"}}

\* One call _generate_summary(results)
GenerateSummary ==
    /\ prog = "generate_summary"
    /\ pc = "summarize"
    /\ \E results \in SeqsUpTo(SummaryInputs, MaxResults) :
          /\ arg_results' = results
          /\ summary' = generate_summary(results)
    /\ pc' = "summarized"
    /\ UNCHANGED <<prog, reviewVars, appVars, segVars, review_rows, sentiment_analysis,
                   analysis_chunks, analysis_summaries, verdicts, insert_returned>>

----------------------------------------------------------------------------
(* steam_sentiment.py: insert_sentiment_data and main.  The three analysis
   tables are lists of rows in insertion order; the columns created_at,
   suggested_category and tags are left out. *)

EmptyDb == [sentiment_analysis |-> <<>>, analysis_chunks |-> <<>>, analysis_summaries |-> <<>>]

\* Lines 203-217; id is the value RETURNING id gives
ParentRow(id, analysis_data, game_name, user_id) ==
    [id |-> id,
     original_text |-> analysis_data.original_text,
     total_chunks |-> analysis_data.total_chunks,
     from_game |-> game_name,
     user_id |-> user_id,
     source_platform |-> "steam"]

\* ChunkRow with enumerate(..., 1)
ChunkRowFromOne(sentiment_id, chunk_data, chunk_order) ==
    [sentiment_analysis_id |-> sentiment_id,
     chunk |-> chunk_data.chunk,
     sentiment |-> chunk_data.sentiment,
     confidence |-> chunk_data.confidence,
     category |-> chunk_data.category,
     is_out_of_box |-> chunk_data.is_out_of_box,
     chunk_order |-> chunk_order + 1]

\* Lines 225-242; chunk_order is the idx of enumerate
ChunkRow(sentiment_id, chunk_data, chunk_order) ==
    [sentiment_analysis_id |-> sentiment_id,
     chunk |-> chunk_data.chunk,
     sentiment |-> chunk_data.sentiment,
     confidence |-> chunk_data.confidence,
     category |-> chunk_data.category,
     is_out_of_box |-> chunk_data.is_out_of_box,
     chunk_order |-> chunk_order]

\* Lines 248-265
SummaryRow(sentiment_id, summary_dict) ==
    [sentiment_analysis_id |-> sentiment_id,
     total_chunks |-> summary_dict.total_chunks,
     positive_count |-> summary_dict.sentiment_distribution["positive"],
     negative_count |-> summary_dict.sentiment_distribution["negative"],
     neutral_count |-> summary_dict.sentiment_distribution["neutral"],
     out_of_box_count |-> summary_dict.out_of_box_count,
     average_confidence |-> summary_dict.average_confidence,
     category_distribution |-> summary_dict.category_distribution]

\* The tables as the transaction sees them after the first k statements of
\* lines 210-265 (the parent insert, one insert per chunk, the summary
\* insert).  The serial id is modelled as the number of rows plus one.
Executed(db, analysis_data, game_name, user_id, k) ==
    LET sentiment_id == Len(db.sentiment_analysis) + 1
        n == Len(analysis_data.analysis_results)
        m == IF k - 1 < n THEN k - 1 ELSE n
    IN  [sentiment_analysis |->
            IF k >= 1
            THEN Append(db.sentiment_analysis, ParentRow(sentiment_id, analysis_data, game_name, user_id))
            ELSE db.sentiment_analysis,
         analysis_chunks |->
            db.analysis_chunks \o
                [i \in 1..m |-> ChunkRow(sentiment_id, analysis_data.analysis_results[i], i - 1)],
         analysis_summaries |->
            IF k >= n + 2
            THEN Append(db.analysis_summaries, SummaryRow(sentiment_id, analysis_data.summary))
            ELSE db.analysis_summaries]

\* What can go wrong in one insert_sentiment_data call on n chunks.  at: the
\* statement that does not complete (0: the parent insert, 1..n: a chunk
\* insert, n + 1: the summary insert, n + 2: the commit).  "statement": it
\* raises and the connection stays usable; "connection": the connection is
\* lost, the statement raises and so does the rollback of line 278;
\* "interrupt": the process is stopped there.
InsertFaults(n) ==
    {[kind |-> "none", at |-> n + 3]}
        \cup [kind : {"statement", "connection", "interrupt"}, at : 0..(n + 2)]

\* insert_sentiment_data on a connection in autocommit mode
insert_sentiment_dataAutocommit(db, analysis_data, game_name, user_id, fault) ==
    IF fault.kind = "none"
    THEN [db |-> Executed(db, analysis_data, game_name, user_id, fault.at), returned |-> "True"]
    ELSE [db |-> Executed(db, analysis_data, game_name, user_id, fault.at),
          returned |-> CASE fault.kind = "statement" -> "False"
                         [] fault.kind = "connection" -> "raised"
                         [] fault.kind = "interrupt" -> "interrupted"]

\* Lines 193-280: the committed tables after the call and what the caller
\* gets ("raised": the exception of the rollback leaves the function;
\* "interrupted": the process has stopped, the server drops the transaction)
insert_sentiment_data(db, analysis_data, game_name, user_id, fault) ==
    IF fault.kind = "none"
    THEN [db |-> Executed(db, analysis_data, game_name, user_id, fault.at), returned |-> "True"]
    ELSE [db |-> db,
          returned |-> CASE fault.kind = "statement" -> "False"
                         [] fault.kind = "connection" -> "raised"
                         [] fault.kind = "interrupt" -> "interrupted"]

\* One row of the SELECT of lines 337-349
ReviewRow(id, review_id, review, author_steamid, game_name) ==
    [id |-> id, review_id |-> review_id, review |-> review, author_steamid |-> author_steamid, steam_product_id |-> app_id, game_name |-> game_name]

\* Reviews of one chunk, of two chunks and of none (an empty text is not
\* NULL); the LEFT JOIN finds no product for the second
ReviewRows ==
    {ReviewRow(1, "r101", <<"a">>, Id1, "Ib"),
     ReviewRow(2, "r102", <<"a", ".", " ", "A">>, Id2, None),
     ReviewRow(3, "r103", <<>>, "76563", "Ib")}

\* Lines 362-369
ReviewData(row) ==
    [id |-> row.id,
     review_id |-> row.review_id,
     review_text |-> row.review,
     author_steamid |-> row.author_steamid,
     steam_product_id |-> row.steam_product_id,
     game_name |-> IF TruthyStr(row.game_name) THEN row.game_name ELSE row.steam_product_id]

\* the answer every chunk got in the earlier run
EarlierReply == Reply("json", "none", "positive", 9, "Graphics fidelity")

\* The tables after a run over rows in which every review was analysed and
\* saved
RECURSIVE EarlierRun(_, _)
EarlierRun(db, rows) ==
    IF rows = <<>> THEN db
    ELSE LET review_data == ReviewData(rows[1])
             n == Len(chunk_text(review_data.review_text, DefaultChunkSize, DefaultOverlap).chunks)
             result == analyze_text(review_data.review_text, [k \in 1..n |-> EarlierReply])
         IN  EarlierRun(insert_sentiment_data(db, result.data, review_data.game_name,
                                              review_data.author_steamid,
                                              [kind |-> "none", at |-> n + 3]).db,
                        Tail(rows))

\* Lines 300-317: app_ids.txt and DB_URL are read; either missing ends the
\* run
SentimentStartup ==
    /\ prog = "steam_sentiment"
    /\ pc = "sent_start"
    /\ \E manifest \in BOOLEAN, DB_URL \in {None, "postgresql://db"} :
          pc' = IF manifest /\ TruthyStr(DB_URL) THEN "sent_connect" ELSE "exited"
    /\ UNCHANGED <<prog, reviewVars, appVars, segVars, sentVars>>

\* Lines 319-352: an exception of psycopg2.connect is not caught.  The
\* SELECT returns distinct rows of steam_reviews in some order.  From here on
\* the three tables are the committed content of the database: what earlier
\* runs left, that is nothing, or the records of one run over these reviews.
SelectReviews ==
    /\ prog = "steam_sentiment"
    /\ pc = "sent_connect"
    /\ \/ /\ pc' = "crashed"
          /\ UNCHANGED <<db_conn, sentVars>>
       \/ /\ pc' = "sent_loop"
          /\ db_conn' = "open"
          /\ \E rows \in SeqsUpTo(ReviewRows, MaxReviews) :
                /\ \A i, j \in DOMAIN rows : rows[i] = rows[j] => i = j
                /\ review_rows' = rows
                /\ \E db \in {EmptyDb, EarlierRun(EmptyDb, rows)} :
                      /\ sentiment_analysis' = db.sentiment_analysis
                      /\ analysis_chunks' = db.analysis_chunks
                      /\ analysis_summaries' = db.analysis_summaries
          /\ UNCHANGED <<verdicts, insert_returned, arg_results, summary>>
    /\ UNCHANGED <<prog, review_cards, idx, all_reviews, custom_id_count, lookups,
                   api_reviews, cursor, page_num, requests, stop, response, api_before, data, page_pos,
                   last_seen, final_reviews, reviews_table,
                   save_idx, save_log, success_count, failed_count, appVars, segVars>>

\* the three tables as one value
Db ==
    [sentiment_analysis |-> sentiment_analysis,
     analysis_chunks |-> analysis_chunks,
     analysis_summaries |-> analysis_summaries]

\* Lines 361-414: one pass of the review loop.  An exception of
\* analyze_text or of insert_sentiment_data is caught by line 410.
AnalyzeReview ==
    /\ prog = "steam_sentiment"
    /\ pc = "sent_loop"
    /\ idx < Len(review_rows)
    /\ LET review_data == ReviewData(review_rows[idx + 1])
           n == Len(chunk_text(review_data.review_text, DefaultChunkSize, DefaultOverlap).chunks)
       IN  \E replies \in Conversations(n) :
           \E result \in {analyze_text(review_data.review_text, replies)} :
              /\ verdicts' = replies
              /\ IF result.raised
                 THEN /\ insert_returned' = "not called"
                      /\ failed_count' = failed_count + 1
                      /\ idx' = idx + 1
                      /\ UNCHANGED <<pc, success_count, sentiment_analysis, analysis_chunks, analysis_summaries>>
                 ELSE \E fault \in InsertFaults(n) :
                      \E r \in {insert_sentiment_data(Db, result.data, review_data.game_name, review_data.author_steamid, fault)} :
                         /\ insert_returned' = r.returned
                         /\ sentiment_analysis' = r.db.sentiment_analysis
                         /\ analysis_chunks' = r.db.analysis_chunks
                         /\ analysis_summaries' = r.db.analysis_summaries
                         /\ IF r.returned = "interrupted"
                            THEN /\ pc' = "interrupted"
                                 /\ UNCHANGED <<idx, success_count, failed_count>>
                            ELSE /\ idx' = idx + 1
                                 /\ IF r.returned = "True"
                                    THEN success_count' = success_count + 1 /\ UNCHANGED failed_count
                                    ELSE failed_count' = failed_count + 1 /\ UNCHANGED success_count
                                 /\ UNCHANGED pc
    /\ UNCHANGED <<prog, review_cards, all_reviews, custom_id_count, lookups,
                   api_reviews, cursor, page_num, requests, stop, response, api_before, data, page_pos,
                   last_seen, final_reviews, db_conn, reviews_table,
                   save_idx, save_log, review_rows, arg_results, summary, appVars, segVars>>

\* Lines 416-436: the results are written to a file, db.disconnect()
SentimentFinish ==
    /\ prog = "steam_sentiment"
    /\ pc = "sent_loop"
    /\ idx = Len(review_rows)
    /\ db_conn' = "closed"
    /\ pc' = "sent_done"
    /\ UNCHANGED <<prog, review_cards, idx, all_reviews, custom_id_count, lookups,
                   api_reviews, cursor, page_num, requests, stop, response, api_before, data, page_pos,
                   last_seen, final_reviews, reviews_table,
                   save_idx, save_log, success_count, failed_count, appVars, segVars, sentVars>>

----------------------------------------------------------------------------

\* The state every script starts in
Fresh ==
    /\ review_cards = <<>>
    /\ idx = 0
    /\ all_reviews = <<>>
    /\ custom_id_count = 0
    /\ lookups = 0
    /\ api_reviews = <<>>
    /\ cursor = "*"
    /\ page_num = 0
    /\ requests = 0
    /\ stop = "none"
    /\ response = NoResponse
    /\ api_before = <<>>
    /\ data = NoData
    /\ page_pos = 0
    /\ last_seen = <<>>
    /\ final_reviews = <<>>
    /\ db_conn = "none"
    /\ reviews_table = <<>>
    /\ save_idx = 0
    /\ save_log = <<>>
    /\ success_count = 0
    /\ failed_count = 0
    /\ all_apps = <<>>
    /\ last_appid = "0"
    /\ apps = <<>>
    /\ have_more = "False"
    /\ app_requests = 0
    /\ app_stop = "none"
    /\ arg_text = <<>>
    /\ arg_chunk_size = 1
    /\ arg_overlap = 0
    /\ norm_text = <<>>
    /\ sentences = <<>>
    /\ words = <<>>
    /\ chunks = <<>>
    /\ review_rows = <<>>
    /\ sentiment_analysis = <<>>
    /\ analysis_chunks = <<>>
    /\ analysis_summaries = <<>>
    /\ verdicts = <<>>
    /\ insert_returned = "not called"
    /\ arg_results = <<>>
    /\ summary = <<>>

Init ==
    /\ prog \in {"review_scraper", "game_scraper"}
    /\ pc = IF prog = "review_scraper" THEN "start" ELSE "app_fetch"
    /\ Fresh

\* steam_sentiment.py: one run of main, or one call of chunk_text on a text
\* of its own, or one call of _generate_summary on a list of its own
SentimentInit ==
    /\ prog \in {"steam_sentiment", "chunk_text", "generate_summary"}
    /\ pc = CASE prog = "steam_sentiment" -> "sent_start"
              [] prog = "chunk_text" -> "chunk"
              [] prog = "generate_summary" -> "summarize"
    /\ Fresh

\* steam_review_scraper.py, from its first statement to db.disconnect().
ReviewNext ==
    \/ Startup
    \/ Render
    \/ ParseCard
    \/ RequestPage
    \/ StoreReview
    \/ EndPage
    \/ Merge
    \/ Connect
    \/ SaveReview
    \/ Finish

Next ==
    \/ ReviewNext
    \/ GetAppBatch

Spec == Init /\ [][Next]_vars

\* One run of steam_review_scraper.py: the script is sequential and always
\* takes its next step.
ReviewInit ==
    /\ Init
    /\ prog = "review_scraper"

FairSpec == ReviewInit /\ [][ReviewNext]_vars /\ WF_vars(ReviewNext)

SentimentNext ==
    \/ SentimentStartup
    \/ SelectReviews
    \/ AnalyzeReview
    \/ SentimentFinish
    \/ GenerateSummary
    \/ ChunkText

SentimentSpec == SentimentInit /\ [][SentimentNext]_vars

----------------------------------------------------------------------------
(* Vocabulary of the properties *)

LoopPcs == {"fetch", "page"}

\* the last answer was a successful page (HTTP 200, JSON, success set)
GoodResponse ==
    /\ ~response.exc
    /\ response.status = "200"
    /\ response.json_ok
    /\ response.success = "1"

\* the author ids the for statement has met
SeenIds == DOMAIN last_seen

NumericIds == {Id1, Id2}

ReviewCard(card) == card.label # "none"

AliasCardsParsed ==
    {i \in 1..idx : ReviewCard(review_cards[i]) /\ review_cards[i].kind = "id"}

----------------------------------------------------------------------------
(* C1: on a feed of n stored pages, each with a cursor that is neither empty
   nor '*', followed by an empty page, the loop issues exactly n+1 page
   requests, is left after the empty page, and api_reviews has a record for
   every author id of those pages.  page_num is n: line 233 counts the pages
   that were followed by another request. *)
C1_EmptyPageEndsFeed ==
    (prog = "review_scraper" /\ requests \in 1..MaxRequests
        /\ GoodResponse /\ response.empty)
    => /\ pc \notin LoopPcs
       /\ stop = "empty"
       /\ requests = page_num + 1
       /\ SeenIds \subseteq DOMAIN api_reviews
       /\ api_reviews = api_before

C1_Witness ==
    /\ stop = "empty"
    /\ page_num = 1
    /\ requests = 2
    /\ DOMAIN api_reviews = {Id1, Id2}

----------------------------------------------------------------------------
(* C2 as claimed: the pagination loop terminates under every feed behaviour,
   a feed that returns the same cursor again and again included. *)
C2_LoopAlwaysTerminates == (pc = "fetch") ~> (pc \notin LoopPcs)

(* C2 as amended: the loop issues a further page request only after a
   successful, non-empty page whose cursor is neither empty nor '*'; any
   other answer ends it.  It has no other stopping rule. *)
C2_FurtherRequestOnlyAfterLivePage ==
    (prog = "review_scraper" /\ pc \in LoopPcs /\ requests > 0)
    => /\ GoodResponse
       /\ ~response.empty
       /\ pc = "fetch" => data.cursor \notin {"Unread", Missing, None, "", "*"}

C2_Witness ==
    /\ pc = "fetch"
    /\ requests > MaxRequests
    /\ page_num > MaxRequests
    /\ cursor = "AoJ4"

----------------------------------------------------------------------------
(* C3 as claimed: when page request k fails (status, success flag, malformed
   body, timeout or transport exception), the loop is left, and api_reviews
   holds exactly what pages 1..k-1 put there. *)
C3_FailedPageKeepsEarlierPages ==
    (prog = "review_scraper" /\ stop \in {"status", "unsuccessful", "exception"})
    => /\ pc \notin LoopPcs
       /\ api_reviews = api_before

----------------------------------------------------------------------------
(* C4: after a successful non-empty page whose cursor is empty, missing or
   '*', the loop is left with that page's records in api_reviews and no
   further page request: the requests are the pages followed by another
   request, plus this one. *)
C4_TerminalCursorEndsFeed ==
    (prog = "review_scraper" /\ data.cursor \in {Missing, None, "", "*"})
    => /\ pc \notin LoopPcs
       /\ stop = "cursor"
       /\ GoodResponse /\ ~response.empty
       /\ api_reviews = last_seen
       /\ api_reviews = api_before
       /\ requests <= MaxRequests => requests = page_num + 1

C4_Witness ==
    /\ stop = "cursor"
    /\ data.cursor = "*"
    /\ page_num = 1
    /\ requests = 2
    /\ DOMAIN api_reviews = {Id1, Id2}
    /\ pc = "merge"

----------------------------------------------------------------------------
(* C5, the get_app_list half: when a batch is not empty and
   have_more_results is false or absent, the batch's apps are kept at the
   end of all_apps and the loop is left. *)
C5_AppListStopsWithoutMore ==
    (prog = "game_scraper" /\ app_requests > 0 /\ apps # <<>> /\ ~TruthyNum(have_more))
    => /\ pc = "apps_done"
       /\ Len(all_apps) >= Len(apps)
       /\ SubSeq(all_apps, Len(all_apps) - Len(apps) + 1, Len(all_apps)) = apps

(* C5 as claimed: in the review feed loop too, a page that says
   have_more_results = false is the last one requested, fresh cursor or not. *)
C5_NoMoreSignalEndsEveryFetcher ==
    /\ C5_AppListStopsWithoutMore
    /\ (prog = "review_scraper" /\ data.have_more_results = "False") => pc \notin LoopPcs

C5_Witness ==
    /\ pc = "apps_done"
    /\ app_stop = "no_more"
    /\ app_requests = 2
    /\ Len(apps) = 2
    /\ Len(all_apps) = 3
    /\ have_more = "False"

----------------------------------------------------------------------------
(* C6: api_reviews has exactly one record for each author id the feed
   listed, the one listed last, and as many records as distinct ids. *)
C6_LastWriterWins ==
    prog = "review_scraper"
    => /\ DOMAIN api_reviews = SeenIds
       /\ Cardinality(DOMAIN api_reviews) = Cardinality(SeenIds)
       /\ \A id \in SeenIds : api_reviews[id] = last_seen[id]

\* an author stored by an earlier page is listed again with another record
C6_Witness ==
    /\ pc = "page"
    /\ page_num = 1
    /\ Id1 \in DOMAIN api_before
    /\ api_reviews[Id1] # api_before[Id1]
    /\ api_reviews[Id1].review = "feed text, edited"

----------------------------------------------------------------------------
(* C7: a scraped record whose alias the identity service does not resolve is
   in neither all_reviews nor final_reviews, and every record handed to
   save_review has a numeric author id. *)
C7_OnlyResolvedIdentitiesSaved ==
    /\ \A i \in DOMAIN all_reviews : all_reviews[i].steam_id \in NumericIds
    /\ \A i \in DOMAIN final_reviews : final_reviews[i].author_steamid \in NumericIds
    /\ \A k \in DOMAIN reviews_table : reviews_table[k].author_steamid \in NumericIds
    /\ Len(all_reviews) <= Cardinality({i \in 1..idx : ReviewCard(review_cards[i])})
    /\ save_idx <= Len(final_reviews)

\* two alias cards, one resolved and saved, the other unresolved and dropped
C7_Witness ==
    /\ pc = "done"
    /\ Len(review_cards) = 2
    /\ \A i \in 1..2 : ReviewCard(review_cards[i]) /\ review_cards[i].kind = "id"
    /\ Len(final_reviews) = 1
    /\ success_count = 1
    /\ Cardinality(DOMAIN reviews_table) = 1

----------------------------------------------------------------------------
(* C8: the parsing loop sends no lookup for a card with a numeric profile
   link and exactly one for a review card with an alias link, whatever the
   lookup's outcome. *)
C8_OneLookupPerAlias ==
    prog = "review_scraper"
    => /\ lookups = Cardinality(AliasCardsParsed)
       /\ custom_id_count = lookups

\* a numeric card, then an alias card whose lookup failed
C8_Witness ==
    /\ idx = 2
    /\ Len(review_cards) = 2
    /\ review_cards[1].kind = "profiles" /\ ReviewCard(review_cards[1])
    /\ review_cards[2].kind = "id" /\ ReviewCard(review_cards[2])
    /\ lookups = 1
    /\ Len(all_reviews) = 1

----------------------------------------------------------------------------
(* C9 as claimed: final_reviews has at most one record per canonical
   identity, and no two records with the same review_id. *)
C9_OneMergedReviewPerIdentity ==
    \A i, j \in DOMAIN final_reviews :
        i # j => /\ final_reviews[i].author_steamid # final_reviews[j].author_steamid
                 /\ final_reviews[i].review_id # final_reviews[j].review_id

----------------------------------------------------------------------------
(* C10 as claimed: playtime, review text, recommendation flag and creation
   timestamp of a merged record are the feed record's whenever the feed
   record carries a value, and the scraped ones when there is no feed
   record, the field is missing from it, or the field is null. *)
Carries(v) == v \notin {Missing, None}

FeedRecordOf(scraped) ==
    IF scraped.steam_id \in DOMAIN api_reviews
    THEN api_reviews[scraped.steam_id] ELSE NoFeedRec

C10_FeedValueTakesPrecedence ==
    \A i \in DOMAIN final_reviews :
        LET s == all_reviews[i]
            f == FeedRecordOf(s)
            m == final_reviews[i]
        IN  /\ m.author_playtime_forever =
                  IF Carries(f.playtime_forever) THEN f.playtime_forever ELSE s.playtime_forever
            /\ m.review = IF Carries(f.review) THEN f.review ELSE s.review_text
            /\ m.voted_up = IF Carries(f.voted_up) THEN f.voted_up ELSE s.voted_up
            /\ m.timestamp_created =
                  IF Carries(f.timestamp_created) THEN fromtimestamp(f.timestamp_created)
                  ELSE s.timestamp_created

----------------------------------------------------------------------------
(* C11 as claimed: the review_id of a merged record is the feed record's
   recommendationid when the feed record of that author has one, and the
   composite '<steam id>_<app id>' when there is no feed record, the key is
   missing from it, or its value is null. *)
C11_ReviewIdFeedElseComposite ==
    \A i \in DOMAIN final_reviews :
        LET s == all_reviews[i]
            f == FeedRecordOf(s)
        IN  final_reviews[i].review_id =
               IF Carries(f.recommendationid) THEN f.recommendationid
               ELSE s.steam_id \o "_" \o app_id

----------------------------------------------------------------------------
(* C12 as claimed: a second run of the merge step on the same scraped and
   feed records gives records equal to the first run's in every field, in
   whatever order the scraped records are taken. *)
AfterMerge == {"connect", "save", "done"}

Range(f) == {f[i] : i \in DOMAIN f}

Reorderings(seq) ==
    {[i \in DOMAIN seq |-> seq[p[i]]] :
        p \in {q \in [DOMAIN seq -> DOMAIN seq] : Range(q) = DOMAIN seq}}

WithoutClock(r) == [f \in DOMAIN r \ {"created_at"} |-> r[f]]

\* the readings of a run that starts delay ticks after this one
LaterStamps(n, delay) ==
    {[i \in 1..n |-> st[i] + delay] : st \in Stamps(n)}

C12_SecondMergeEqualInEveryField ==
    pc \in AfterMerge
    => \A stamps \in LaterStamps(Len(all_reviews), 1) :
       \A scraped \in Reorderings(all_reviews) :
          Range(MergeAll(scraped, api_reviews, stamps)) = Range(final_reviews)

(* C12 as amended: the second run's records equal the first run's in every
   field but created_at, which is the clock reading of each run; apart from
   created_at the merged record of a scraped record depends on neither the
   order nor the other scraped records. *)
C12_MergeDeterministicButClock ==
    pc \in AfterMerge
    => LET first == {WithoutClock(r) : r \in Range(final_reviews)} IN
       /\ \A stamps \in LaterStamps(Len(all_reviews), 1) :
             \A i \in DOMAIN final_reviews :
                WithoutClock(MergeOne(all_reviews[i], api_reviews, stamps[i]))
                   = WithoutClock(final_reviews[i])
       /\ \E stamps \in LaterStamps(Len(all_reviews), 1) :
             \A scraped \in Reorderings(all_reviews) :
                {WithoutClock(r) : r \in Range(MergeAll(scraped, api_reviews, stamps))} = first

\* two different scraped records merged at two different clock readings
C12_Witness ==
    /\ pc = "connect"
    /\ Len(final_reviews) = 2
    /\ all_reviews[1] # all_reviews[2]
    /\ final_reviews[1].created_at < final_reviews[2].created_at
    /\ final_reviews[1].timestamp_created = None

----------------------------------------------------------------------------
(* Vocabulary of the save loop *)

\* a save_review call has just returned or raised
Saved == save_log # <<>>

LastSave == save_log[Len(save_log)]

\* the merged record the last call was given
LastPayload == final_reviews[Len(save_log)]

LastRow == reviews_table[LastPayload.review_id]

ImmutableFields ==
    {"review_id", "author_steamid", "steam_product_id", "timestamp_created", "created_at"}

----------------------------------------------------------------------------
(* C13 as claimed: after save_review has succeeded on a review_id that was
   already persisted, the stored row's votes_up, votes_funny,
   weighted_vote_score, comment_count and review are the payload's. *)
C13_UpdateTakesAllMutableFields ==
    (Saved /\ LastSave.kind = "updated")
    => \A f \in {"votes_up", "votes_funny", "weighted_vote_score", "comment_count", "review"} :
          LastRow[f] = LastPayload[f]

----------------------------------------------------------------------------
(* C14: no step changes review_id, author_steamid, steam_product_id,
   timestamp_created or created_at of a persisted row, and no step removes a
   row: an upsert on a persisted review_id leaves them as first written. *)
C14_IdentityAndCreationKept ==
    [][\A k \in DOMAIN reviews_table :
          /\ k \in DOMAIN reviews_table'
          /\ \A f \in ImmutableFields : reviews_table'[k][f] = reviews_table[k][f]]_vars

\* an update whose payload carries another created_at and timestamp_created
\* than the row, and whose review text was taken over
C14_Witness ==
    /\ Saved
    /\ LastSave.kind = "updated"
    /\ LastPayload.created_at # LastRow.created_at
    /\ LastPayload.timestamp_created # LastRow.timestamp_created
    /\ LastPayload.review = LastRow.review
    /\ LastRow.review = ""

----------------------------------------------------------------------------
(* C15 as claimed: what save_review reports tells the three outcomes apart:
   'inserted' when the review_id was absent, 'updated' when it was present,
   'failed' when the write did not commit. *)
C15_ThreeOutcomesReported ==
    \A i, j \in DOMAIN save_log :
        save_log[i].returned = save_log[j].returned => save_log[i].kind = save_log[j].kind

(* C15 as amended: save_review returns True exactly when the write committed,
   insert and update alike; when it did not commit it returns False, or
   raises when the rollback fails too.  The save loop counts the True and
   the False returns. *)
C15_TrueExactlyWhenCommitted ==
    /\ \A i \in DOMAIN save_log :
          /\ save_log[i].returned = "True" <=> save_log[i].kind \in {"inserted", "updated"}
          /\ save_log[i].kind = "failed" <=> save_log[i].returned \in {"False", "raised"}
    /\ success_count = Cardinality({i \in DOMAIN save_log : save_log[i].returned = "True"})
    /\ failed_count = Cardinality({i \in DOMAIN save_log : save_log[i].returned = "False"})

\* an update of a row an earlier run left, then a write that did not commit
C15_Witness ==
    /\ Len(save_log) = 2
    /\ save_log[1] = [kind |-> "updated", returned |-> "True"]
    /\ save_log[2] = [kind |-> "failed", returned |-> "False"]
    /\ success_count = 1
    /\ failed_count = 1

----------------------------------------------------------------------------
(* C16 as claimed: a write that fails, by a constraint violation or a
   connection error, is counted in failed_count and the loop goes on: once
   the save loop has begun it is left only after every merged record has
   been handed to save_review and counted. *)
C16_WriteFailureNeverAbortsRun ==
    (prog = "review_scraper" /\ db_conn # "none" /\ pc # "save")
    => /\ save_idx = Len(final_reviews)
       /\ success_count + failed_count = Len(final_reviews)
       /\ Len(save_log) = Len(final_reviews)

----------------------------------------------------------------------------
(* Vocabulary of the segmenter *)

Chunked == prog = "chunk_text" /\ pc = "chunked"

OnCheapPath == CheapPath(sentences, arg_chunk_size)

\* range(0, len(words), chunk_size - overlap)
WindowStarts ==
    {i \in 0..(Len(words) - 1) : i % (arg_chunk_size - arg_overlap) = 0}

WindowAt(i) == Window(words, i, arg_chunk_size)

\* what line 159 makes of the window that starts after i words
ChunkAt(i) == align_to_sentence_boundary(WindowAt(i))

\* the words of the text that the chunk of window i holds
SpanAt(i) == (i + 1)..(i + Len(split(ChunkAt(i))))

\* a sentence ending at the end of a word of s
WordEndings(s) ==
    {i \in 1..Len(s) : s[i] \in sentence_endings /\ (i = Len(s) \/ isspace(s[i + 1]))}

AnyEndings(s) == {i \in 1..Len(s) : s[i] \in sentence_endings}

\* the places where the boundary heuristic splits a normalized text
Boundaries(s) ==
    {i \in 2..(Len(s) - 1) :
        isspace(s[i]) /\ s[i - 1] \in sentence_endings /\ isupper(s[i + 1])}

----------------------------------------------------------------------------
(* C17: when every sentence of the normalized text has at most chunk_size
   words, chunk_text returns the sentences of the text, in order: one more
   chunk than the text has sentence boundaries, none empty, and joined by
   single spaces they are the normalized text again (nothing dropped,
   nothing repeated, nothing split further). *)
C17_CheapPathReturnsSentences ==
    (Chunked /\ OnCheapPath)
    => /\ chunks = sentences
       /\ \A k \in DOMAIN chunks : chunks[k] # <<>> /\ strip(chunks[k]) = chunks[k]
       /\ join(chunks) = norm_text
       /\ Len(chunks) = IF norm_text = <<>> THEN 0
                         ELSE Cardinality(Boundaries(norm_text)) + 1

\* "a . A" with chunk_size 2: two sentences, the space before '.' normalized away
C17_Witness ==
    /\ Chunked
    /\ arg_text = <<"a", " ", ".", " ", "A">>
    /\ arg_chunk_size = 2
    /\ OnCheapPath
    /\ chunks = << <<"a", ".">>, <<"A">> >>

----------------------------------------------------------------------------
(* C18 as claimed: on the sliding-window path every word of the normalized
   text lies in the word span of at least one returned chunk. *)
C18_SlidingChunksCoverEveryWord ==
    (Chunked /\ ~OnCheapPath)
    => \A w \in 1..Len(words) :
          \E i \in WindowStarts :
             /\ w \in SpanAt(i)
             /\ \E k \in DOMAIN chunks : chunks[k] = ChunkAt(i)

----------------------------------------------------------------------------
(* C19 as claimed: a window that contains a '.', '!' or '?' anywhere gives a
   chunk that ends with one, the window cut back to the last one; a window
   with none gives the whole window. *)
C19_ChunkEndsAtAnyEnding ==
    (Chunked /\ ~OnCheapPath)
    => \A i \in WindowStarts :
          LET w == WindowAt(i) IN
          /\ \E k \in DOMAIN chunks : chunks[k] = ChunkAt(i)
          /\ IF AnyEndings(w) = {} THEN ChunkAt(i) = w
             ELSE /\ ChunkAt(i)[Len(ChunkAt(i))] \in sentence_endings
                  /\ \E e \in AnyEndings(w) :
                        /\ ChunkAt(i) = SubSeq(w, 1, e)
                        /\ \A j \in AnyEndings(w) : j <= e

(* C19 as amended: only a sentence ending at the end of a word (followed by
   whitespace, or last in the window) counts.  A window that has one gives
   the window cut back to the last one, so the chunk ends with it and what
   was cut off has none; a window that has none, even with a '.' inside a
   word, gives the whole window.  The chunks of the windows are returned in
   order. *)
C19_ChunkEndsAtLastWordEnding ==
    (Chunked /\ ~OnCheapPath)
    => /\ \A i \in WindowStarts :
             LET w == WindowAt(i)
                 c == ChunkAt(i)
             IN  /\ \E k \in DOMAIN chunks : chunks[k] = c
                 /\ Len(c) <= Len(w) /\ c = SubSeq(w, 1, Len(c))
                 /\ IF WordEndings(w) = {} THEN c = w
                    ELSE /\ c[Len(c)] \in sentence_endings
                         /\ Len(c) \in WordEndings(w)
                         /\ \A j \in WordEndings(w) : j <= Len(c)
       /\ Len(chunks) = Cardinality(WindowStarts)

\* "a. a a" with chunk_size 2: the window "a. a" is cut back to "a."
C19_Witness ==
    /\ Chunked
    /\ ~OnCheapPath
    /\ arg_text = <<"a", ".", " ", "a", " ", "a">>
    /\ arg_chunk_size = 2
    /\ arg_overlap = 1
    /\ WindowAt(0) = <<"a", ".", " ", "a">>
    /\ chunks = << <<"a", ".">>, <<"a", " ", "a">>, <<"a">> >>

----------------------------------------------------------------------------
(* C20: every chunk chunk_text returns, on either path, is a non-empty
   string of at least one and at most chunk_size words. *)
C20_ChunksNonEmptyAndBounded ==
    Chunked
    => \A k \in DOMAIN chunks :
          /\ chunks[k] # <<>>
          /\ Len(split(chunks[k])) \in 1..arg_chunk_size

\* "a a a" with chunk_size 2: a full window and the rest
C20_Witness ==
    /\ Chunked
    /\ ~OnCheapPath
    /\ arg_text = <<"a", " ", "a", " ", "a">>
    /\ arg_chunk_size = 2
    /\ arg_overlap = 0
    /\ chunks = << <<"a", " ", "a">>, <<"a">> >>

----------------------------------------------------------------------------
(* Vocabulary of the review loop of steam_sentiment.py *)

\* a pass of the review loop has just ended
PassEnds == prog = "steam_sentiment" /\ idx' = idx + 1

\* the review of the pass that has just ended
PassReview == ReviewData(review_rows[idx + 1])

\* the pass left the three tables as they were
NothingPersisted ==
    /\ sentiment_analysis' = sentiment_analysis
    /\ analysis_chunks' = analysis_chunks
    /\ analysis_summaries' = analysis_summaries

\* the pass counted the review as failed
CountedFailed ==
    /\ failed_count' = failed_count + 1
    /\ success_count' = success_count

\* the pass counted the review as saved
CountedSaved ==
    /\ success_count' = success_count + 1
    /\ failed_count' = failed_count

\* the reply is a verdict that carries a confidence outside [0, 1]
ConfidenceOutOfRange(reply) ==
    /\ reply.kind = "json"
    /\ reply.absent # "confidence"
    /\ reply.confidence \notin 0..10

----------------------------------------------------------------------------
(* C21: a pass of the review loop in which the classifier gave some chunk a
   verdict with a confidence outside [0, 1] persists no row, increments
   failed_count and leaves success_count as it was. *)
C21_OutOfRangeConfidenceFailsReview ==
    [][(PassEnds /\ \E k \in DOMAIN verdicts' : ConfidenceOutOfRange(verdicts'[k]))
          => (NothingPersisted /\ CountedFailed)]_vars

----------------------------------------------------------------------------
(* C22: a pass of the review loop in which the classification of some chunk
   raised (call error, reply that is not JSON, missing key, sentiment outside
   positive / negative / neutral) persists no row, increments failed_count
   alone, and leaves the loop running; a pass that persists rows received a
   verdict for every chunk of the review and none of them raised. *)
C22_AllChunksOrNothing ==
    [][PassEnds
          => /\ (\E k \in DOMAIN verdicts' : ChunkRaises(verdicts'[k]))
                   => (NothingPersisted /\ CountedFailed /\ pc' = "sent_loop")
             /\ ~NothingPersisted
                   => /\ Len(verdicts') = Len(chunk_text(PassReview.review_text, DefaultChunkSize, DefaultOverlap).chunks)
                      /\ \A k \in DOMAIN verdicts' : ~ChunkRaises(verdicts'[k])]_vars

\* the first of two reviews has two chunks; its first chunk got a verdict,
\* the classification of its second chunk raised, and the second review is
\* still to come
C22_Witness ==
    /\ prog = "steam_sentiment"
    /\ pc = "sent_loop"
    /\ idx = 1
    /\ Len(review_rows) = 2
    /\ Len(verdicts) = 2
    /\ ~ChunkRaises(verdicts[1])
    /\ ChunkRaises(verdicts[2])
    /\ failed_count = 1
    /\ success_count = 0
    /\ sentiment_analysis = <<>>
    /\ analysis_chunks = <<>>
    /\ analysis_summaries = <<>>

----------------------------------------------------------------------------
(* C23: a pass of the review loop in which the classifier gave some chunk a
   verdict whose category is the empty string persists no chunk row and no
   analysis row of that review. *)
EmptyCategory(reply) ==
    /\ reply.kind = "json"
    /\ reply.absent # "category"
    /\ reply.category = ""

C23_EmptyCategoryRejected ==
    [][(PassEnds /\ \E k \in DOMAIN verdicts' : EmptyCategory(verdicts'[k]))
          => NothingPersisted]_vars

----------------------------------------------------------------------------
(* C24: in every committed state of the database each sentiment_analysis row
   has exactly total_chunks analysis_chunks rows and exactly one
   analysis_summaries row; and a call of insert_sentiment_data in which a
   statement or the commit failed, or during which the run was interrupted,
   leaves the three tables as they were and does not return True (it returns
   False, or the exception of the rollback leaves it, or the process has
   stopped). *)
ChunkRowsOf(id) == {j \in DOMAIN analysis_chunks : analysis_chunks[j].sentiment_analysis_id = id}

SummaryRowsOf(id) == {j \in DOMAIN analysis_summaries : analysis_summaries[j].sentiment_analysis_id = id}

RowsComplete ==
    \A i \in DOMAIN sentiment_analysis :
        /\ Cardinality(ChunkRowsOf(sentiment_analysis[i].id)) = sentiment_analysis[i].total_chunks
        /\ Cardinality(SummaryRowsOf(sentiment_analysis[i].id)) = 1

C24_AnalysisPersistedAtomically ==
    /\ []RowsComplete
    /\ [][(prog = "steam_sentiment" /\ pc = "sent_loop")
             => /\ insert_returned' \in {"False", "raised", "interrupted"} => NothingPersisted
                /\ ~NothingPersisted => insert_returned' = "True"]_vars

\* the first review, of two chunks, was committed; the run was interrupted
\* inside insert_sentiment_data for the second
C24_Witness ==
    /\ prog = "steam_sentiment"
    /\ pc = "interrupted"
    /\ idx = 1
    /\ insert_returned = "interrupted"
    /\ Len(verdicts) = 1
    /\ Len(sentiment_analysis) = 1
    /\ sentiment_analysis[1].total_chunks = 2
    /\ Len(analysis_chunks) = 2
    /\ Len(analysis_summaries) = 1

----------------------------------------------------------------------------
(* C25: for every sentiment_analysis row with n chunks, the chunk_order
   values of its analysis_chunks rows are exactly 0 .. n - 1, each used
   once, and the row with chunk_order k holds the chunk at index k of what
   chunk_text returns for the row's original_text. *)
C25_ChunkOrderIsTextOrder ==
    \A i \in DOMAIN sentiment_analysis :
        LET row == sentiment_analysis[i]
            segments == chunk_text(row.original_text, DefaultChunkSize, DefaultOverlap).chunks
            mine == ChunkRowsOf(row.id)
        IN  /\ {analysis_chunks[j].chunk_order : j \in mine} = 0..(row.total_chunks - 1)
            /\ Cardinality(mine) = row.total_chunks
            /\ row.total_chunks = Len(segments)
            /\ \A j \in mine : analysis_chunks[j].chunk = segments[analysis_chunks[j].chunk_order + 1]

\* a record of two chunks, "a." before "A", persisted by this run
C25_Witness ==
    /\ prog = "steam_sentiment"
    /\ insert_returned = "True"
    /\ \E i \in DOMAIN sentiment_analysis :
          /\ sentiment_analysis[i].original_text = <<"a", ".", " ", "A">>
          /\ \E j, k \in ChunkRowsOf(sentiment_analysis[i].id) :
                /\ analysis_chunks[j].chunk_order = 0
                /\ analysis_chunks[j].chunk = <<"a", ".">>
                /\ analysis_chunks[k].chunk_order = 1
                /\ analysis_chunks[k].chunk = <<"A">>

----------------------------------------------------------------------------
(* C26: for every list of verdicts, the empty one included, the summary
   _generate_summary returns has a sentiment_distribution with exactly the
   keys positive, negative and neutral, each the number of verdicts with
   that sentiment; an out_of_box_count that is the number of verdicts of
   category 'out-of-box'; a category_distribution from each category that
   occurs to its number of verdicts; and an average_confidence that is the
   sum of the confidences over the number of verdicts, or 0.0 for the empty
   list.  So the three sentiment counts sum to total_chunks, the values of
   category_distribution sum to total_chunks, and out_of_box_count is the
   entry of 'out-of-box' (0 when there is none). *)
Summarized == prog = "generate_summary" /\ pc = "summarized"

\* the number of verdicts of arg_results whose field has the value v
HowMany(field, v) == Cardinality({i \in DOMAIN arg_results : arg_results[i][field] = v})

\* the sum of f over the finite set S
RECURSIVE SumOver(_, _)
SumOver(S, f) ==
    IF S = {} THEN 0
    ELSE LET x == CHOOSE y \in S : TRUE IN f[x] + SumOver(S \ {x}, f)

\* the confidences of arg_results added up value by value
ConfidenceTotal ==
    LET values == {arg_results[i].confidence : i \in DOMAIN arg_results}
    IN  SumOver(values, [v \in values |-> v * HowMany("confidence", v)])

C26_SummaryIsReferenceAggregate ==
    Summarized
    => LET dist == summary.sentiment_distribution
           hist == summary.category_distribution
       IN  /\ summary.total_chunks = Len(arg_results)
           /\ DOMAIN dist = {"positive", "negative", "neutral"}
           /\ \A s \in DOMAIN dist : dist[s] = HowMany("sentiment", s)
           /\ summary.out_of_box_count = HowMany("category", "out-of-box")
           /\ DOMAIN hist = {arg_results[i].category : i \in DOMAIN arg_results}
           /\ \A g \in DOMAIN hist : hist[g] = HowMany("category", g)
           /\ summary.average_confidence =
                 IF arg_results = <<>> THEN Quotient(0, 1)
                 ELSE Quotient(ConfidenceTotal, Len(arg_results))
           /\ dist["positive"] + dist["negative"] + dist["neutral"] = summary.total_chunks
           /\ SumOver(DOMAIN hist, hist) = summary.total_chunks
           /\ summary.out_of_box_count = IF "out-of-box" \in DOMAIN hist THEN hist["out-of-box"] ELSE 0

\* three verdicts: two positive, one negative, one of them out-of-box
C26_Witness ==
    /\ Summarized
    /\ Len(arg_results) = 3
    /\ summary.sentiment_distribution = [s \in SentimentType |-> CASE s = "positive" -> 2 [] s = "negative" -> 1 [] s = "neutral" -> 0]
    /\ summary.out_of_box_count = 1
    /\ summary.category_distribution = [g \in {"Graphics fidelity", "out-of-box"} |-> IF g = "out-of-box" THEN 1 ELSE 2]
    /\ summary.average_confidence = Quotient(23, 3)

----------------------------------------------------------------------------
(* C27: whatever runs have been made over the same reviews, sentiment_analysis
   holds at most one row per analysed review (the author's user_id, the game
   and the text identify the review): a later run does not add a second
   record for a review an earlier run analysed. *)
SameReview(a, b) ==
    /\ a.user_id = b.user_id
    /\ a.from_game = b.from_game
    /\ a.original_text = b.original_text

C27_OneRecordPerReview ==
    \A i, j \in DOMAIN sentiment_analysis :
        SameReview(sentiment_analysis[i], sentiment_analysis[j]) => i = j

----------------------------------------------------------------------------
(* C28: in steam_review_scraper.py the storage connection is attempted before
   any processing: as long as no connection has been established (none was
   attempted yet, or the attempt failed) no page has been rendered, no
   identity looked up, no feed page requested and nothing merged. *)
C28_ConnectionPrecedesProcessing ==
    (prog = "review_scraper" /\ db_conn = "none")
    => /\ review_cards = <<>>
       /\ idx = 0
       /\ lookups = 0
       /\ requests = 0
       /\ api_reviews = <<>>
       /\ final_reviews = <<>>

----------------------------------------------------------------------------
(* C29: in the save loop of steam_review_scraper.py and in the review loop of
   steam_sentiment.py, success_count + failed_count is at every point the
   number of items the loop has processed, and when the run has ended it is
   the number of items of the loop's input (the merged reviews, the selected
   reviews): every item was counted once, as saved or as failed. *)
InCountingLoop ==
    \/ prog = "review_scraper" /\ db_conn # "none"
    \/ prog = "steam_sentiment" /\ pc \in {"sent_loop", "sent_done"}

ItemsProcessed == IF prog = "review_scraper" THEN save_idx ELSE idx

ItemsGiven == IF prog = "review_scraper" THEN Len(final_reviews) ELSE Len(review_rows)

RunEnded == pc \in {"done", "crashed", "sent_done"}

C29_EveryItemCountedOnce ==
    InCountingLoop
    => /\ success_count + failed_count = ItemsProcessed
       /\ RunEnded => success_count + failed_count = ItemsGiven

----------------------------------------------------------------------------
(* C30: whatever runs have been made for the product, steam_reviews holds at
   most one row per author and product: a run that meets again a review an
   earlier run persisted updates its row, also when the feed listed the
   author in one of the two runs only. *)
C30_OneRowPerAuthorAndProduct ==
    \A k1, k2 \in DOMAIN reviews_table :
        (/\ reviews_table[k1].author_steamid = reviews_table[k2].author_steamid
         /\ reviews_table[k1].steam_product_id = reviews_table[k2].steam_product_id)
        => k1 = k2

====
